---- MODULE Spec2Model ----
(***************************************************************************)
(* python-bun-plugin (src/src/index.ts): a Bun plugin whose onResolve hook *)
(* passes every specifier of namespace 'python' through unchanged and      *)
(* whose onLoad hook generates a small module that binds the named Python  *)
(* module with pymport and exports its proxy as default.                   *)
(*                                                                         *)
(* Strings the code manipulates (specifiers, paths, generated text) are    *)
(* sequences of one-character strings, so that prefix stripping and        *)
(* template interpolation are computed character by character.             *)
(***************************************************************************)
EXTENDS Integers, Sequences, FiniteSets, TLC

VARIABLES
    registered,     \* number of configurations handed to plugin()
    resolveHooks,   \* callbacks installed with build.onResolve
    loadHooks,      \* callbacks installed with build.onLoad
    phase,          \* per import: "idle", "resolved", "loaded", "done"
    specifier,      \* per import: the specifier the host handed to onResolve
    resolved,       \* per import: the record onResolve returned
    loaded,         \* per import: the record onLoad returned
    binds,          \* per import: the pymport() invocations made so far
    outcome,        \* per import: how the import ended
    overlap         \* per import: another import's hook call interleaved with it

vars == << registered, resolveHooks, loadHooks, phase, specifier, resolved, loaded,
           binds, outcome, overlap >>

----------------------------------------------------------------------------
(* Bounds of the model *)

\* number of imports the host has in flight at once
MaxImports == 3

\* how many times 'python:' is put in front of a name when building inputs
MaxPrefix == 2

Imports == 1..MaxImports

----------------------------------------------------------------------------
(* Text constants of index.ts *)

\* the regular expression literal /^python:/ matches this text at index 0
PythonPrefix == <<"p","y","t","h","o","n",":">>

\* the template literal up to the interpolation ${...}
TemplateHead ==
    << "\n", " ", " ", " ", " ", " ", " ", " ", " ", " ", " ", "i", "m", "p", "o", "r",
       "t", " ", "{", " ", "p", "y", "m", "p", "o", "r", "t", ",", " ", "p", "r", "o",
       "x", "i", "f", "y", " ", "}", " ", "f", "r", "o", "m", " ", "'", "p", "y", "m",
       "p", "o", "r", "t", "'", ";", "\n", "\n", " ", " ", " ", " ", " ", " ", " ", " ",
       " ", " ", "c", "o", "n", "s", "t", " ", "m", "o", "d", "u", "l", "e", " ", "=",
       " ", "p", "y", "m", "p", "o", "r", "t", "(", "'" >>

\* the template literal after the interpolation
TemplateTail ==
    << "'", ")", ";", "\n", " ", " ", " ", " ", " ", " ", " ", " ", " ", " ", "e", "x",
       "p", "o", "r", "t", " ", "d", "e", "f", "a", "u", "l", "t", " ", "p", "r", "o",
       "x", "i", "f", "y", "(", "m", "o", "d", "u", "l", "e", ")", ";", "\n", " ", " ",
       " ", " ", " ", " ", " ", " " >>

\* the default export statement opens with this text
ExportDefault == <<"e","x","p","o","r","t"," ","d","e","f","a","u","l","t">>

Namespace == "python"

FilterAll == ".*"

----------------------------------------------------------------------------
(* String helpers *)

StartsWithAt(s, i, p) ==
    /\ i + Len(p) - 1 <= Len(s)
    /\ \A k \in 1..Len(p) : s[i + k - 1] = p[k]

Drop(s, n) == [k \in 1..(Len(s) - n) |-> s[k + n]]

Take(s, n) == [k \in 1..n |-> s[k]]

\* RegExp.prototype.test for the two filters: /.*/ matches every string,
\* the empty one included (the pattern matches the empty prefix).
FilterMatches(filter, path) ==
    filter = FilterAll /\ Len(path) >= 0

----------------------------------------------------------------------------
(* The hooks of PythonBunPlugin *)

\* Mutant: the pattern without its anchor, /python:/, matches wherever the
\* text first occurs.
MatchPythonPrefix_unanchored(path) ==
    LET hits == {k \in 1..Len(path) : StartsWithAt(path, k, PythonPrefix)}
    IN  IF hits = {} THEN 0 ELSE CHOOSE k \in hits : \A l \in hits : k <= l

\* index of the first match of /^python:/ in path, 0 when there is none: the
\* pattern is anchored and has no m flag, so it can match at the start only
MatchPythonPrefix(path) ==
    IF StartsWithAt(path, 1, PythonPrefix) THEN 1 ELSE 0

\* Mutant: the pattern /^python:(?=.)/, which wants a name after the prefix.
replace_nonempty(path) ==
    IF StartsWithAt(path, 1, PythonPrefix) /\ Len(path) > Len(PythonPrefix)
    THEN Drop(path, Len(PythonPrefix))
    ELSE path

\* path.replace(/^python:/, ""): the first match (the pattern has no g flag)
\* is replaced by the empty string, the rest of path is kept as it is
replace(path) ==
    LET k == MatchPythonPrefix(path)
    IN  IF k = 0
        THEN path
        ELSE Take(path, k - 1) \o Drop(path, k - 1 + Len(PythonPrefix))

\* Mutant: the resolve hook strips the prefix itself.
onResolve_stripped(args) ==
    [path |-> replace(args.path), namespace |-> Namespace]

\* ({ path }) => ({ path, namespace: "python" })
onResolve(args) ==
    [path |-> args.path, namespace |-> Namespace]

\* Mutant: the generated text carries a running number of the loads done.
onLoad_counter(args) ==
    LET n == Cardinality({j \in Imports : phase[j] \in {"loaded", "done"}})
        digits == <<"0","1","2","3","4","5","6","7","8","9">>
    IN  [contents |-> TemplateHead \o replace(args.path) \o TemplateTail
                         \o <<"/", "/", digits[(n % 10) + 1]>>,
         loader   |-> "js"]

\* Mutant: the contents are tagged as a text asset.
onLoad_text(args) ==
    [contents |-> TemplateHead \o replace(args.path) \o TemplateTail,
     loader   |-> "text"]

\* Mutant: the path is kept in a variable shared by the callbacks, which a
\* resolve call for another import overwrites before this load reads it.
onLoad_shared(args) ==
    LET others == {j \in Imports :
                      phase[j] = "resolved" /\ resolved[j].path # args.path}
        path == IF others = {} THEN args.path
                ELSE resolved[CHOOSE j \in others : TRUE].path
    IN  [contents |-> TemplateHead \o replace(path) \o TemplateTail,
         loader   |-> "js"]

\* ({ path }) => ({ contents: `...${path.replace(/^python:/, "")}...`, loader: "js" })
onLoad(args) ==
    [contents |-> TemplateHead \o replace(args.path) \o TemplateTail,
     loader   |-> "js"]

\* Mutant: the load hook binds the module itself instead of generating text
\* that does.
onLoadBinds_eager(args) ==
    << [name   |-> replace(args.path),
        during |-> "load",
        result |-> [ok |-> TRUE, handle |-> replace(args.path), error |-> ""]] >>

\* the pymport() invocations the onLoad callback makes itself: its body is one
\* object literal, built from a template literal and path.replace only
onLoadBinds(args) ==
    << >>

\* async setup(build): one onResolve and one onLoad callback, both for the
\* namespace 'python' with the filter /.*/
setup ==
    /\ resolveHooks' = resolveHooks \cup {[filter |-> FilterAll, namespace |-> Namespace]}
    /\ loadHooks' = loadHooks \cup {[filter |-> FilterAll, namespace |-> Namespace]}

\* plugin(PythonBunPlugin): the module body runs once, the host calls setup
plugin ==
    /\ registered = 0
    /\ registered' = registered + 1
    /\ setup
    /\ UNCHANGED << phase, specifier, resolved, loaded, binds, outcome, overlap >>

----------------------------------------------------------------------------
(* The generated module, as the host compiles and evaluates it *)

\* Single-quoted string literals of the generated text. A string literal
\* cannot span a line terminator, so position i lies inside one exactly when
\* an odd number of quotes precedes it on its line. (No input of this model
\* holds a backslash, so no quote is escaped.)
Quotes(text) == {k \in 1..Len(text) : text[k] = "'"}

LineStart(text, i) ==
    LET breaks == {k \in 1..(i - 1) : text[k] = "\n"}
    IN  IF breaks = {} THEN 1
        ELSE 1 + CHOOSE k \in breaks : \A l \in breaks : l <= k

InString(text, i) ==
    Cardinality({k \in Quotes(text) : LineStart(text, i) <= k /\ k < i}) % 2 = 1

\* every string literal is closed before its line ends
Terminated(text) ==
    /\ \A i \in 1..Len(text) : text[i] = "\n" => ~InString(text, i)
    /\ ~InString(text, Len(text) + 1)

\* the places where a statement 'export default ...' starts
DefaultExports(text) ==
    {i \in 1..Len(text) : StartsWithAt(text, i, ExportDefault) /\ ~InString(text, i)}

\* position of the n-th quote of the text
NthQuote(text, n) ==
    CHOOSE q \in Quotes(text) : Cardinality({k \in Quotes(text) : k < q}) = n - 1

\* the n-th string literal of a text whose literals are all terminated
Literal(text, n) ==
    LET open == NthQuote(text, 2 * n - 1)
        close == NthQuote(text, 2 * n)
    IN  [k \in 1..(close - open - 1) |-> text[open + k]]

\* The text compiles when no string literal is left open and 'default' is
\* exported once (a second export of 'default' is an early error).
Compiles(text) ==
    /\ Terminated(text)
    /\ Cardinality(DefaultExports(text)) = 1
    /\ Cardinality(Quotes(text)) >= 4

\* const module = pymport('<name>'): the argument is the second string
\* literal of the text, after the 'pymport' of the import declaration
BindArgument(text) ==
    Literal(text, 2)

\* what pymport(name) can do: return a handle, or raise one of its errors
BinderErrors == {"ModuleNotFoundError", "ImportError"}

BindResults(name) ==
    {[ok |-> TRUE, handle |-> name, error |-> ""]}
        \cup {[ok |-> FALSE, handle |-> << >>, error |-> e] : e \in BinderErrors}

NoOutcome == [status |-> "none", error |-> "", value |-> << >>]

\* const module = pymport(...); export default proxify(module); with no
\* try/catch around the call: an error pymport raises ends the evaluation
ModuleResult(r) ==
    IF r.ok
    THEN [status |-> "ok", error |-> "", value |-> r.handle]
    ELSE [status |-> "failed", error |-> r.error, value |-> << >>]

----------------------------------------------------------------------------
(* The host's module pipeline *)

NoResolve == [path |-> << >>, namespace |-> ""]

NoLoad == [contents |-> << >>, loader |-> ""]

Init ==
    /\ registered = 0
    /\ resolveHooks = {}
    /\ loadHooks = {}
    /\ phase = [i \in Imports |-> "idle"]
    /\ specifier = [i \in Imports |-> << >>]
    /\ resolved = [i \in Imports |-> NoResolve]
    /\ loaded = [i \in Imports |-> NoLoad]
    /\ binds = [i \in Imports |-> << >>]
    /\ outcome = [i \in Imports |-> NoOutcome]
    /\ overlap = [i \in Imports |-> FALSE]

\* the host hands specifier s, seen in namespace 'python', to the onResolve
\* callback installed for that namespace
HostResolve(i, s) ==
    /\ phase[i] = "idle"
    /\ \E h \in resolveHooks :
          h.namespace = Namespace /\ FilterMatches(h.filter, s)
    /\ phase' = [phase EXCEPT ![i] = "resolved"]
    /\ specifier' = [specifier EXCEPT ![i] = s]
    /\ resolved' = [resolved EXCEPT ![i] = onResolve([path |-> s])]
    /\ overlap' = [j \in Imports |->
                     IF j = i
                     THEN \E k \in Imports \ {i} : phase[k] = "resolved"
                     ELSE overlap[j] \/ phase[j] = "resolved"]
    /\ UNCHANGED << registered, resolveHooks, loadHooks, loaded, binds, outcome >>

\* the host routes the resolved path to the onLoad callback of its namespace
HostLoad(i) ==
    /\ phase[i] = "resolved"
    /\ \E h \in loadHooks :
          /\ h.namespace = resolved[i].namespace
          /\ FilterMatches(h.filter, resolved[i].path)
    /\ phase' = [phase EXCEPT ![i] = "loaded"]
    /\ loaded' = [loaded EXCEPT ![i] = onLoad([path |-> resolved[i].path])]
    /\ binds' = [binds EXCEPT ![i] = @ \o onLoadBinds([path |-> resolved[i].path])]
    /\ UNCHANGED << registered, resolveHooks, loadHooks, specifier, resolved,
                    outcome, overlap >>

\* the host compiles the returned contents as script and evaluates it
HostEvaluate(i) ==
    /\ phase[i] = "loaded"
    /\ loaded[i].loader = "js"
    /\ phase' = [phase EXCEPT ![i] = "done"]
    /\ IF Compiles(loaded[i].contents)
       THEN \E r \in BindResults(BindArgument(loaded[i].contents)) :
               /\ binds' = [binds EXCEPT ![i] =
                              Append(@, [name   |-> BindArgument(loaded[i].contents),
                                         during |-> "evaluate",
                                         result |-> r])]
               /\ outcome' = [outcome EXCEPT ![i] = ModuleResult(r)]
       ELSE /\ outcome' = [outcome EXCEPT ![i] =
                              [status |-> "failed", error |-> "SyntaxError",
                               value |-> << >>]]
            /\ UNCHANGED binds
    /\ UNCHANGED << registered, resolveHooks, loadHooks, specifier, resolved,
                    loaded, overlap >>

----------------------------------------------------------------------------
(* Inputs *)

\* names and specifier shapes handed to the hooks
Bodies ==
    { << >>,
      <<"n","u","m","p","y">>,
      <<"f","o","o",".","b","a","r">>,
      <<"x">>,
      <<"x","'">>,
      <<"'",")",";","e","x","p","o","r","t"," ","d","e","f","a","u","l","t"," ","0",";","(","'">>,
      <<"x","p","y","t","h","o","n",":","y">>,
      <<"p","y","t","h","o","n">>,
      <<"p","y","t","h","o",":">>,
      <<"P","y","t","h","o","n",":","x">>,
      <<"e","x","p","o","r","t"," ","d","e","f","a","u","l","t">> }

RECURSIVE Prefixed(_, _)
Prefixed(n, body) ==
    IF n = 0 THEN body ELSE PythonPrefix \o Prefixed(n - 1, body)

Specifiers == {Prefixed(n, b) : n \in 0..MaxPrefix, b \in Bodies}

\* the specifiers of the concurrent imports
ConcurrentSpecifiers ==
    { PythonPrefix \o <<"n","u","m","p","y">>,
      PythonPrefix }

\* concurrent imports
Next ==
    \/ plugin
    \/ \E i \in Imports :
          \/ \E s \in ConcurrentSpecifiers : HostResolve(i, s)
          \/ HostLoad(i)
          \/ HostEvaluate(i)

Spec == Init /\ [][Next]_vars

\* one import at a time, over every specifier shape
NextInputs ==
    \/ plugin
    \/ \E s \in Specifiers : HostResolve(1, s)
    \/ HostLoad(1)
    \/ HostEvaluate(1)

SpecInputs == Init /\ [][NextInputs]_vars

----------------------------------------------------------------------------
(* Properties *)

Resolved(i) == phase[i] # "idle"

Loaded(i) == phase[i] \in {"loaded", "done"}

\* what stands between the two fixed parts of the generated text
InterpolatedName(i) ==
    [k \in 1..(Len(loaded[i].contents) - Len(TemplateHead) - Len(TemplateTail)) |->
        loaded[i].contents[Len(TemplateHead) + k]]

Contains(text, part) ==
    \E k \in 1..(Len(text) + 1) : StartsWithAt(text, k, part)

NoColon(name) == \A k \in 1..Len(name) : name[k] # ":"

BindOpen == <<"p","y","m","p","o","r","t","(","'">>

BindClose == <<"'",")">>

ExportStatement ==
    <<"e","x","p","o","r","t"," ","d","e","f","a","u","l","t"," ",
      "p","r","o","x","i","f","y","(","m","o","d","u","l","e",")",";">>

Numpy == <<"n","u","m","p","y">>

\* C1: whatever specifier the resolve hook is handed, it returns a record
\* (no failure is recorded for the import) whose path is the specifier itself
\* and whose namespace is 'python'.
C1_ResolvePassesThrough ==
    \A i \in Imports :
        Resolved(i) =>
            /\ resolved[i].path = specifier[i]
            /\ resolved[i].namespace = "python"
            /\ (phase[i] = "resolved" => outcome[i] = NoOutcome)

\* a specifier with the prefix has been resolved to itself
C1_Witness ==
    \E i \in Imports :
        /\ phase[i] = "resolved"
        /\ StartsWithAt(specifier[i], 1, PythonPrefix)
        /\ Len(specifier[i]) > Len(PythonPrefix)
        /\ resolved[i].path = specifier[i]

\* C2: for a name m without ':', the text generated for 'python:' + m
\* contains pymport('m') with m verbatim, and exactly one default export
\* statement, which is 'export default proxify(module);'.
C2_BindCallAndSingleDefaultExport ==
    \A i \in Imports :
        LET p == resolved[i].path
            m == Drop(p, Len(PythonPrefix))
            text == loaded[i].contents
        IN  (Loaded(i) /\ StartsWithAt(p, 1, PythonPrefix) /\ NoColon(m)) =>
                /\ Contains(text, BindOpen \o m \o BindClose)
                /\ Cardinality(DefaultExports(text)) = 1
                /\ \A e \in DefaultExports(text) :
                      StartsWithAt(text, e, ExportStatement)

\* C3: the name interpolated into the bind call is the path without its
\* leading 'python:', removed once, or the path itself when it does not
\* start with 'python:'.
C3_NameIsPathWithoutLeadingPrefix ==
    \A i \in Imports :
        Loaded(i) =>
            LET p == resolved[i].path
                n == Len(PythonPrefix)
                expected == IF Len(p) >= n /\ SubSeq(p, 1, n) = PythonPrefix
                            THEN SubSeq(p, n + 1, Len(p))
                            ELSE p
            IN  /\ SubSeq(loaded[i].contents, 1, Len(TemplateHead)) = TemplateHead
                /\ InterpolatedName(i) = expected
                /\ (p = PythonPrefix \o <<"f","o","o",".","b","a","r">>
                      => InterpolatedName(i) = <<"f","o","o",".","b","a","r">>)
                /\ (p = PythonPrefix \o PythonPrefix \o <<"x">>
                      => InterpolatedName(i) = PythonPrefix \o <<"x">>)
                /\ (p = <<"x">> \o PythonPrefix \o <<"y">>
                      => InterpolatedName(i) = p)

\* 'python:python:x' has been loaded and its name is 'python:x'
C3_Witness ==
    \E i \in Imports :
        /\ Loaded(i)
        /\ resolved[i].path = PythonPrefix \o PythonPrefix \o <<"x">>
        /\ InterpolatedName(i) = PythonPrefix \o <<"x">>

\* C4: two loads of the same resolved path return the same contents and the
\* same loader, whatever other calls were made before or between them.
C4_LoadIsDeterministic ==
    \A i, j \in Imports :
        (Loaded(i) /\ Loaded(j) /\ resolved[i].path = resolved[j].path) =>
            /\ loaded[i].contents = loaded[j].contents
            /\ loaded[i].loader = loaded[j].loader

\* two imports of one path are loaded, and so is an import of another path
C4_Witness ==
    \E i, j, k \in Imports :
        /\ i # j
        /\ Loaded(i) /\ Loaded(j) /\ Loaded(k)
        /\ resolved[i].path = resolved[j].path
        /\ resolved[k].path # resolved[i].path
        /\ loaded[i] = loaded[j]

\* C5: every generated text has the shape of the generated module contract:
\* the fixed text around the name, the name as one string literal that is
\* the argument of pymport, and one export, the default one.
C5_GeneratedModuleShape ==
    \A i \in Imports :
        Loaded(i) =>
            LET text == loaded[i].contents
            IN  /\ SubSeq(text, 1, Len(TemplateHead)) = TemplateHead
                /\ Terminated(text)
                /\ Cardinality(Quotes(text)) = 4
                /\ Literal(text, 2) = InterpolatedName(i)
                /\ Cardinality(DefaultExports(text)) = 1

\* C6: the specifier 'python:' is resolved and loaded like any other, and the
\* generated module calls pymport with the empty string.
C6_EmptyNameIsPassedOn ==
    \A i \in Imports :
        specifier[i] = PythonPrefix =>
            /\ (Resolved(i) => resolved[i].path = PythonPrefix)
            /\ (Loaded(i) =>
                    /\ Compiles(loaded[i].contents)
                    /\ BindArgument(loaded[i].contents) = << >>)
            /\ (phase[i] = "done" =>
                    /\ Len(binds[i]) = 1
                    /\ binds[i][1].name = << >>
                    /\ outcome[i].error # "SyntaxError")

\* the module generated for 'python:' has been evaluated and has called
\* pymport with the empty string
C6_Witness ==
    \E i \in Imports :
        /\ specifier[i] = PythonPrefix
        /\ phase[i] = "done"
        /\ Len(binds[i]) = 1
        /\ binds[i][1].name = << >>

\* C7: pymport is called only while the generated module is evaluated, after
\* the load hook has returned, and at most once per import; no failure is
\* recorded before that; and when pymport raises, the import ends failed with
\* the very error it raised.
C7_BindOnlyAtEvaluation ==
    \A i \in Imports :
        /\ (phase[i] # "done" => binds[i] = << >> /\ outcome[i] = NoOutcome)
        /\ Len(binds[i]) <= 1
        /\ \A k \in 1..Len(binds[i]) :
              /\ binds[i][k].during = "evaluate"
              /\ (~binds[i][k].result.ok =>
                     /\ outcome[i].status = "failed"
                     /\ outcome[i].error = binds[i][k].result.error)

\* an import has ended with the ImportError pymport raised
C7_Witness ==
    \E i \in Imports :
        /\ phase[i] = "done"
        /\ Len(binds[i]) = 1
        /\ ~binds[i][1].result.ok
        /\ binds[i][1].result.error = "ImportError"
        /\ outcome[i].error = "ImportError"

\* C8: every record the load hook returns has the loader 'js'.
C8_LoaderIsJs ==
    \A i \in Imports : Loaded(i) => loaded[i].loader = "js"

\* a loaded module has been evaluated as script and has bound its module
C8_Witness ==
    \E i \in Imports :
        /\ phase[i] = "done"
        /\ loaded[i].loader = "js"
        /\ outcome[i].status = "ok"

\* C9: an import whose hook calls were interleaved with those of another
\* import gets the same resolve and load results as an import of the same
\* specifier whose calls ran with no other import in flight.
C9_InterleavingChangesNothing ==
    \A i, j \in Imports :
        (/\ Loaded(i) /\ Loaded(j)
         /\ specifier[i] = specifier[j]
         /\ overlap[i] /\ ~overlap[j]) =>
            /\ resolved[i] = resolved[j]
            /\ loaded[i] = loaded[j]

\* one import ran alone, another of the same specifier ran interleaved with
\* an import of a different specifier
C9_Witness ==
    \E i, j, k \in Imports :
        /\ Loaded(i) /\ Loaded(j) /\ Resolved(k)
        /\ specifier[i] = specifier[j]
        /\ specifier[k] # specifier[i]
        /\ overlap[i] /\ overlap[k] /\ ~overlap[j]
        /\ loaded[i] = loaded[j]

====
